---- MODULE Spec2Model ----
(***************************************************************************)
(* Heartbeat daemon (hbd): the heartbeat handler of                        *)
(* app_with_mysql_and_cache.rs over the in-memory HeartbeatCache of        *)
(* cache.rs, with the MySQL store (procedure is_device_active) and the     *)
(* wall clock as its environment.                                          *)
(***************************************************************************)
EXTENDS Integers, Sequences, FiniteSets, TLC

\* ------------------------------------------------------------------ bounds
\* Largest value of the clock (Utc::now()) the model explores.
MaxTime == 2
\* The staleness budget and the heartbeat period of the write-through policy.
\* The source names them only in a comment and gives them no value.
max_staleness == 3
hb_staleness_period == 2

\* ------------------------------------------------------------- input sets
\* MAC strings as the devices send them; the handler uses them verbatim.
MACs == {"AA", "aa"}
\* Device ids (the ID query parameter).
IDs == {7, 8}
\* Local addresses (the IP query parameter).
IPs == {"10.0.0.5", "10.0.0.6"}
\* Values of the squelch column of a device row.
SquelchVals == {0, 1}
\* Addresses a request can reach the server from.
RemoteIPs == {"203.0.113.9", "198.51.100.7"}
\* Values of the optional pip query parameter when a client sends it.
ClientPips == {"6.6.6.6"}
\* Keys of the cache when its operations are exercised directly.
CacheMACs == MACs \cup {"BB"}
\* The device whose heartbeats race.
ConcMACs == {"AA"}

\* ---------------------------------------------------------- Option, Result
None == [some |-> FALSE]
Some(v) == [some |-> TRUE, val |-> v]
Ok(v) == [ok |-> TRUE, val |-> v]
Err(e) == [ok |-> FALSE, err |-> e]

SERVICE_UNAVAILABLE == "503 Service Unavailable"
INTERNAL_SERVER_ERROR == "500 Internal Server Error"
StatusOK == "200 OK"

VARIABLES
    devices,   \* HeartbeatCache.devices: MAC string -> Option<HeartbeatCacheInfo>
    store,     \* the devices table as is_device_active sees it, per MAC
    now,       \* the clock read by Utc::now()
    writes,    \* the durable writes issued to the store so far, in order
    granted,   \* the MACs the store has answered the resolver a device row for
    remote,    \* the address requests reach the server from, as the server sees it
    cfg,       \* the Config call made last: its inputs and what it returned
    tasks,     \* the handlers running on the runtime's worker threads, per task
    hb         \* the heartbeat handled last: its request, resolution and outcome

vars == <<devices, store, now, writes, granted, remote, cfg, tasks, hb>>

\* Handler tasks that can run at the same time.
Tasks == {1, 2}
\* No Config call has been made.
NoCall == [op |-> "none"]
\* A worker with no request in hand.
Free == [pc |-> "free"]

\* A MAC's state in the store: no matching row, or a row with its squelch
\* column.
NoRow == [row |-> FALSE]
Row(squelch) == [row |-> TRUE, squelch |-> squelch]
HasRow(s) == s.row

\* ------------------------------------------------------------------ cache
HeartbeatCacheInfo(id, mac_address, global_ip_address, local_ip_address, last_heartbeat, last_heartbeat_write) ==
    [id |-> id,
     mac_address |-> mac_address,
     global_ip_address |-> global_ip_address,
     local_ip_address |-> local_ip_address,
     last_heartbeat |-> last_heartbeat,
     last_heartbeat_write |-> last_heartbeat_write]

\* The store's canonical form of a MAC address: the stored procedures compare
\* and insert devices.mac_address as UPPER(?).
UPPER(mac_address) == IF mac_address = "aa" THEN "AA" ELSE mac_address

\* HeartbeatCache::new
new == [m \in MACs |-> None]

\* HeartbeatCache::get_device: an owned copy of the record, or None
get_device(cache, mac_address) == cache[mac_address]

\* HeartbeatCache::update_device, were it to key the record by the canonical
\* form of its MAC address.
update_device_canonical_key(cache, device) ==
    [cache EXCEPT ![UPPER(device.mac_address)] = Some(device)]

\* HeartbeatCache::update_device that keeps the last_heartbeat of the record
\* it replaces
update_device_keep_heartbeat(cache, device) ==
    LET old == cache[device.mac_address]
    IN [cache EXCEPT ![device.mac_address] =
           IF old.some
           THEN Some([device EXCEPT !.last_heartbeat = old.val.last_heartbeat])
           ELSE Some(device)]

\* HeartbeatCache::update_device that merges: the record it replaces keeps
\* its id
update_device_merge_id(cache, device) ==
    LET old == cache[device.mac_address]
    IN [cache EXCEPT ![device.mac_address] =
           IF old.some THEN Some([device EXCEPT !.id = old.val.id])
                       ELSE Some(device)]

\* HeartbeatCache::update_device that replaces a record but inserts none
update_device_replace_only(cache, device) ==
    IF cache[device.mac_address].some
    THEN [cache EXCEPT ![device.mac_address] = Some(device)]
    ELSE cache

\* HeartbeatCache::update_device: insert under the record's own mac_address
update_device(cache, device) ==
    [cache EXCEPT ![device.mac_address] = Some(device)]

\* HeartbeatCache::remove_device
remove_device(cache, mac_address) ==
    [cache EXCEPT ![mac_address] = None]

\* HeartbeatCache::len: the map has no length of its own and the cache keeps
\* no counter, so the function returns its placeholder.
len(cache) == 0

\* --------------------------------------------------------------- resolver
AuthorizedResult(authorized, squelched) ==
    [authorized |-> authorized, squelched |-> squelched]

get_pip == "127.1.1.0"

\* conn.exec("CALL is_device_active(?, @msg)", (mac,)): the rows the procedure
\* returns for this MAC, or a query error.
exec_is_device_active(st, mac, fault) ==
    IF fault THEN Err("mysql::Error")
    ELSE IF HasRow(st[mac])
         THEN Ok(<<[account_id |-> 1, squelch |-> st[mac].squelch]>>)
         ELSE Ok(<<>>)

\* call_is_device_active with a failed query resolved as an infrastructure error
call_is_device_active_query_err(conn, result) ==
    IF conn = "Ok"
    THEN IF result.ok
         THEN IF Len(result.val) > 0
              THEN Ok(AuthorizedResult(TRUE, result.val[Len(result.val)].squelch # 0))
              ELSE Ok(AuthorizedResult(FALSE, TRUE))
         ELSE Err(SERVICE_UNAVAILABLE)
    ELSE Err(SERVICE_UNAVAILABLE)

\* call_is_device_active with an unobtainable connection resolved as a denial
call_is_device_active_conn_deny(conn, result) ==
    IF conn = "Ok"
    THEN IF result.ok
         THEN IF Len(result.val) > 0
              THEN Ok(AuthorizedResult(TRUE, result.val[Len(result.val)].squelch # 0))
              ELSE Ok(AuthorizedResult(FALSE, TRUE))
         ELSE Ok(AuthorizedResult(FALSE, TRUE))
    ELSE Ok(AuthorizedResult(FALSE, TRUE))

\* call_is_device_active: conn is the outcome of state.get_connection(),
\* result the outcome of the CALL (read only when conn is Ok).
call_is_device_active(conn, result) ==
    IF conn = "Ok"
    THEN IF result.ok
         THEN IF Len(result.val) > 0
              THEN Ok(AuthorizedResult(TRUE, result.val[Len(result.val)].squelch # 0))
              ELSE Ok(AuthorizedResult(FALSE, TRUE))
         ELSE Ok(AuthorizedResult(FALSE, TRUE))
    ELSE Err(SERVICE_UNAVAILABLE)

\* get_authorized that asks the store whether or not the MAC is cached
get_authorized_always_store(cache, mac, conn, result) ==
    [ret |-> call_is_device_active(conn, result), store_calls |-> 1, cache |-> cache]

\* get_authorized, were it to cache the store's positive verdict itself.
get_authorized_caching_verdict(cache, mac, conn, result) ==
    IF get_device(cache, mac).some
    THEN [ret |-> Ok(AuthorizedResult(TRUE, FALSE)), store_calls |-> 0, cache |-> cache]
    ELSE LET ret == call_is_device_active(conn, result)
         IN [ret |-> ret, store_calls |-> 1,
             cache |-> IF ret.ok /\ ret.val.authorized
                       THEN update_device(cache, HeartbeatCacheInfo(0, mac, get_pip, "", now, None))
                       ELSE cache]

\* get_authorized: a cached MAC is authorized and not squelched; the store is
\* asked only on a miss.  ret is the value returned, store_calls the number of
\* calls of call_is_device_active made on the way, cache the cache it leaves:
\* it only calls get_device on it.
get_authorized(cache, mac, conn, result) ==
    IF get_device(cache, mac).some
    THEN [ret |-> Ok(AuthorizedResult(TRUE, FALSE)), store_calls |-> 0, cache |-> cache]
    ELSE [ret |-> call_is_device_active(conn, result), store_calls |-> 1, cache |-> cache]

\* get_last_heartbeat_write, were it to stamp the current time.
get_last_heartbeat_write_now(cache, mac) == Some(now)

get_last_heartbeat_write(cache, mac) ==
    IF get_device(cache, mac).some
    THEN get_device(cache, mac).val.last_heartbeat_write
    ELSE None

\* get_status_code, were the handler's status to be anything but OK.
get_status_code_internal_error == Err(INTERNAL_SERVER_ERROR)

get_status_code ==
    LET result == StatusOK
    IN IF result = StatusOK THEN Ok("success") ELSE Err(INTERNAL_SERVER_ERROR)

\* The store writes the handler issues between resolving the authorization and
\* updating the cache, were it to write on every accepted heartbeat.
durable_writes_every_heartbeat(authorized, old, device_id, mac_address, ip_address, pip, uninitialized, t) ==
    IF authorized.authorized /\ ~authorized.squelched
    THEN <<[op |-> IF uninitialized THEN "activate_device" ELSE "record_heartbeat",
            mac |-> mac_address, local_ip |-> ip_address, global_ip |-> pip,
            at |-> t]>>
    ELSE <<>>

\* The store writes the handler issues between resolving the authorization and
\* updating the cache: that part of the handler is comments only, so none,
\* whatever the verdict, the cached record, the addresses and the flag.
durable_writes(authorized, old, device_id, mac_address, ip_address, pip, uninitialized, t) ==
    <<>>

\* ---------------------------------------------------------------- handler
HeartbeatQuery(id, mac, ip, pip) == [id |-> id, mac |-> mac, ip |-> ip, pip |-> pip]

Idle == [done |-> FALSE]

\* handle_heartbeat_with_cache, from the request to the response.  conn is the
\* outcome of get_connection and fault whether the CALL errors; neither is
\* read unless the resolver reaches the store, and a CALL needs a connection.
handle_heartbeat_with_cache(params, uninitialized, conn, fault) ==
    LET device_id == params.id
        mac_address == params.mac
        ip_address == params.ip
        pip == get_pip
        old == get_device(devices, mac_address)
        result == exec_is_device_active(store, mac_address, fault)
        resolved == get_authorized(devices, mac_address, conn, result)
        asked == resolved.store_calls > 0
        seen(issued, outcome) ==
                [done |-> TRUE,
                 id |-> device_id, mac |-> mac_address, ip |-> ip_address,
                 pip |-> params.pip,
                 uninitialized |-> uninitialized, at |-> now,
                 hit |-> old.some,
                 prev |-> IF old.some THEN Some(old.val.last_heartbeat) ELSE None,
                 prev_write |-> IF old.some THEN old.val.last_heartbeat_write ELSE None,
                 ip_changed |-> /\ old.some
                                /\ \/ old.val.local_ip_address # ip_address
                                   \/ old.val.global_ip_address # pip,
                 conn |-> IF asked THEN conn ELSE "unused",
                 fault |-> asked /\ conn = "Ok" /\ fault,
                 store_calls |-> resolved.store_calls,
                 authorized |-> resolved.ret,
                 issued |-> issued,
                 outcome |-> outcome]
    IN /\ asked \/ (conn = "Ok" /\ ~fault)
       /\ conn = "Ok" \/ ~fault
       /\ IF ~resolved.ret.ok
          THEN \* the ? operator: return the resolver's error
               /\ hb' = seen(<<>>, Err(resolved.ret.err))
               /\ devices' = resolved.cache
               /\ UNCHANGED <<store, now, writes, granted, remote, cfg, tasks>>
          ELSE LET authorized == resolved.ret.val
                   last_heartbeat_write ==
                       get_last_heartbeat_write(resolved.cache, mac_address)
                   issued == durable_writes(authorized, old, device_id,
                                            mac_address, ip_address, pip,
                                            uninitialized, now)
                   device_update == HeartbeatCacheInfo(device_id, mac_address,
                                                       pip, ip_address, now,
                                                       last_heartbeat_write)
               IN /\ devices' = update_device(resolved.cache, device_update)
                  /\ writes' = writes \o issued
                  /\ granted' = IF asked /\ authorized.authorized
                                 THEN granted \cup {mac_address}
                                 ELSE granted
                  /\ hb' = seen(issued, get_status_code)
                  /\ UNCHANGED <<store, now, remote, cfg, tasks>>

\* GET /hbd
handle_heartbeat ==
    \E id \in IDs, mac \in MACs, ip \in IPs, conn \in {"Ok", "Err"}, fault \in BOOLEAN :
        handle_heartbeat_with_cache(HeartbeatQuery(id, mac, ip, None), FALSE, conn, fault)

\* GET /hbd/uninitialized
handle_heartbeat_uninitialized ==
    \E id \in IDs, mac \in MACs, ip \in IPs, conn \in {"Ok", "Err"}, fault \in BOOLEAN :
        handle_heartbeat_with_cache(HeartbeatQuery(id, mac, ip, None), TRUE, conn, fault)

\* ------------------------------------------------------------ environment
\* Time passes.
Tick ==
    /\ now < MaxTime
    /\ now' = now + 1
    /\ hb' = Idle
    /\ UNCHANGED <<devices, store, writes, granted, remote, cfg, tasks>>

\* An operator gives the MAC a device row, or changes its squelch column.
Authorize ==
    \E mac \in MACs, squelch \in SquelchVals :
        /\ store[mac] # Row(squelch)
        /\ store' = [store EXCEPT ![mac] = Row(squelch)]
        /\ hb' = Idle
        /\ UNCHANGED <<devices, now, writes, granted, remote, cfg, tasks>>

\* An operator revokes the MAC's authorization: its row no longer matches.
Revoke ==
    \E mac \in MACs :
        /\ HasRow(store[mac])
        /\ store' = [store EXCEPT ![mac] = NoRow]
        /\ hb' = Idle
        /\ UNCHANGED <<devices, now, writes, granted, remote, cfg, tasks>>

Init ==
    /\ devices = new
    /\ store = [m \in MACs |-> NoRow]
    /\ now = 0
    /\ writes = <<>>
    /\ granted = {}
    /\ remote = "203.0.113.9"
    /\ cfg = NoCall
    /\ tasks = [t \in Tasks |-> Free]
    /\ hb = Idle

Next ==
    \/ handle_heartbeat
    \/ handle_heartbeat_uninitialized
    \/ Tick
    \/ Authorize
    \/ Revoke

Spec == Init /\ [][Next]_vars

\* ---------------------------------------------------------------------------
\* The cache exercised directly: its three operations called on any key, in
\* any order with whole heartbeats, which may carry the pip parameter and
\* arrive from any address.  Every device has a row in the store and the
\* store answers.

\* cache.get_device(mac): reads the record and changes nothing
call_get_device ==
    \E mac \in CacheMACs :
        /\ hb' = [done |-> FALSE, op |-> "get_device", mac |-> mac,
                  ret |-> get_device(devices, mac)]
        /\ UNCHANGED <<devices, store, now, writes, granted, remote, cfg, tasks>>

\* cache.update_device(device), the record built as the handler builds it
call_update_device ==
    \E id \in IDs, mac \in CacheMACs, ip \in IPs :
        /\ devices' = update_device(devices,
                           HeartbeatCacheInfo(id, mac, get_pip, ip, now,
                               get_last_heartbeat_write(devices, mac)))
        /\ hb' = [done |-> FALSE, op |-> "update_device", mac |-> mac]
        /\ UNCHANGED <<store, now, writes, granted, remote, cfg, tasks>>

\* cache.remove_device(mac)
call_remove_device ==
    \E mac \in CacheMACs :
        /\ devices' = remove_device(devices, mac)
        /\ hb' = [done |-> FALSE, op |-> "remove_device", mac |-> mac]
        /\ UNCHANGED <<store, now, writes, granted, remote, cfg, tasks>>

\* GET /hbd with or without the pip parameter, the store reachable
hbd ==
    \E id \in IDs, mac \in CacheMACs, ip \in IPs,
       pip \in {None} \cup {Some(p) : p \in ClientPips} :
        handle_heartbeat_with_cache(HeartbeatQuery(id, mac, ip, pip), FALSE, "Ok", FALSE)

\* The next request arrives from another address.
Connect ==
    \E ip \in RemoteIPs :
        /\ ip # remote
        /\ remote' = ip
        /\ hb' = Idle
        /\ UNCHANGED <<devices, store, now, writes, granted, cfg, tasks>>

InitCache ==
    /\ devices = [m \in CacheMACs |-> None]
    /\ store = [m \in CacheMACs |-> Row(0)]
    /\ now = 0
    /\ writes = <<>>
    /\ granted = {}
    /\ remote \in RemoteIPs
    /\ cfg = NoCall
    /\ tasks = [t \in Tasks |-> Free]
    /\ hb = Idle

NextCache ==
    \/ call_get_device
    \/ call_update_device
    \/ call_remove_device
    \/ hbd
    \/ Connect

SpecCache == InitCache /\ [][NextCache]_vars

\* ---------------------------------------------------------------------------
\* Config: validation and loading.  A Config is modelled by the fields that
\* validate and the environment overrides read.

DatabasePorts == {0, 3306}
ServerPorts == {0, 3000}
\* (min_connections, max_connections) of the pool
PoolSizes == {<<1, 10>>, <<10, 10>>, <<11, 10>>}
LogLevels == {"trace", "debug", "info", "warn", "error", "verbose"}
AppEnvironments == {"development", "staging", "production", "test"}
DatabaseHosts == {"localhost", "db.file"}
\* Values of the MYSQL_HOST environment variable when it is set.
EnvHosts == {"db.env"}

Config(host, port, pool, server_port, level, environment) == [database |-> [host |-> host, port |-> port, pool |-> [min_connections |-> pool[1], max_connections |-> pool[2]]], server |-> [port |-> server_port], logging |-> [level |-> level], app |-> [environment |-> environment]]

Configs == {Config(h, p, c, sp, l, e) : h \in DatabaseHosts, p \in DatabasePorts, c \in PoolSizes, sp \in ServerPorts, l \in LogLevels, e \in AppEnvironments}

\* Config::default
default == Config("localhost", 3306, <<1, 10>>, 3000, "info", "development")

valid_levels == {"trace", "debug", "info", "warn", "error"}
valid_envs == {"development", "staging", "production"}

\* Config::validate, were it to check the two ports only.
validate_ports_only(self) ==
    IF self.database.port = 0 THEN Err("Database port cannot be 0")
    ELSE IF self.server.port = 0 THEN Err("Server port cannot be 0")
    ELSE Ok("()")

\* Config::validate: the first failing check is the error returned
validate(self) ==
    IF self.database.port = 0 THEN Err("Database port cannot be 0")
    ELSE IF self.server.port = 0 THEN Err("Server port cannot be 0")
    ELSE IF self.database.pool.min_connections > self.database.pool.max_connections
         THEN Err("Database min_connections cannot be greater than max_connections")
    ELSE IF self.logging.level \notin valid_levels THEN Err("Invalid log level")
    ELSE IF self.app.environment \notin valid_envs THEN Err("Invalid environment")
    ELSE Ok("()")

\* What reading and parsing config.toml can give: an error, or the Config
\* the file holds.
ConfigFiles == {Err("Failed to read config file")} \cup {Ok(c) : c \in Configs}

\* The process environment: MYSQL_HOST set or not.
Environments == {[MYSQL_HOST |-> None]} \cup {[MYSQL_HOST |-> Some(h)] : h \in EnvHosts}

\* Config::load_from_file("config.toml")
load_from_file(file) == file

\* Config::load: the file's configuration if it could be read, the default
\* otherwise, then validated.  The environment is not consulted (the call of
\* load_from_env is commented out) and load takes no command line.
load(file, environment) ==
    LET file_config == load_from_file(file)
        config == IF file_config.ok THEN file_config.val ELSE default
        valid == validate(config)
    IN IF valid.ok THEN Ok(config) ELSE Err(valid.err)

\* config.validate() on any configuration
call_validate ==
    \E self \in Configs :
        /\ cfg' = [op |-> "validate", self |-> self, ret |-> validate(self)]
        /\ UNCHANGED <<devices, store, now, writes, granted, remote, tasks, hb>>

\* Config::load() with any config.toml and environment
call_load ==
    \E file \in ConfigFiles, environment \in Environments :
        /\ cfg' = [op |-> "load", file |-> file, environment |-> environment,
                   ret |-> load(file, environment)]
        /\ UNCHANGED <<devices, store, now, writes, granted, remote, tasks, hb>>

NextConfig ==
    \/ call_validate
    \/ call_load

SpecConfig == Init /\ [][NextConfig]_vars

\* ---------------------------------------------------------------------------
\* Handlers running at the same time.  The handler has no await: it runs to
\* its end on one worker thread, while handlers of other requests run on
\* other threads, so its accesses to the cache and to the clock interleave
\* with theirs.  One step per access, in program order.  hb holds the upsert
\* that completed last.

\* The handler is entered with the request's parameters.
task_receive(t) ==
    /\ tasks[t].pc = "free"
    /\ \E id \in IDs, mac \in ConcMACs, ip \in IPs :
          tasks' = [tasks EXCEPT ![t] =
                       [pc |-> "get_authorized",
                        params |-> HeartbeatQuery(id, mac, ip, None)]]
    /\ UNCHANGED <<devices, store, now, writes, granted, remote, cfg, hb>>

\* let authorized = get_authorized(&state, heartbeat_cache, &mac_address)?;
task_get_authorized(t) ==
    /\ tasks[t].pc = "get_authorized"
    /\ \E conn \in {"Ok", "Err"}, fault \in BOOLEAN :
          LET mac_address == tasks[t].params.mac
              result == exec_is_device_active(store, mac_address, fault)
              resolved == get_authorized(devices, mac_address, conn, result)
          IN /\ resolved.store_calls > 0 \/ (conn = "Ok" /\ ~fault)
             /\ conn = "Ok" \/ ~fault
             /\ devices' = resolved.cache
             /\ tasks' = [tasks EXCEPT ![t] =
                   IF resolved.ret.ok
                   THEN [pc |-> "get_last_heartbeat_write",
                         params |-> tasks[t].params,
                         authorized |-> resolved.ret.val]
                   ELSE [pc |-> "returned", ret |-> Err(resolved.ret.err)]]
    /\ UNCHANGED <<store, now, writes, granted, remote, cfg, hb>>

\* let last_heartbeat_write = get_last_heartbeat_write(heartbeat_cache, &mac_address);
task_get_last_heartbeat_write(t) ==
    /\ tasks[t].pc = "get_last_heartbeat_write"
    /\ tasks' = [tasks EXCEPT ![t] =
          [pc |-> "now",
           params |-> tasks[t].params,
           authorized |-> tasks[t].authorized,
           last_heartbeat_write |->
               get_last_heartbeat_write(devices, tasks[t].params.mac)]]
    /\ UNCHANGED <<devices, store, now, writes, granted, remote, cfg, hb>>

\* last_heartbeat: Utc::now(), read while device_update is built
task_now(t) ==
    /\ tasks[t].pc = "now"
    /\ tasks' = [tasks EXCEPT ![t] =
          [pc |-> "update_device",
           authorized |-> tasks[t].authorized,
           device_update |->
               HeartbeatCacheInfo(tasks[t].params.id, tasks[t].params.mac,
                                  get_pip, tasks[t].params.ip, now,
                                  tasks[t].last_heartbeat_write)]]
    /\ UNCHANGED <<devices, store, now, writes, granted, remote, cfg, hb>>

\* heartbeat_cache.update_device(device_update); get_status_code()
task_update_device(t) ==
    /\ tasks[t].pc = "update_device"
    /\ devices' = update_device(devices, tasks[t].device_update)
    /\ hb' = [done |-> FALSE, op |-> "update_device", task |-> t,
              device |-> tasks[t].device_update]
    /\ tasks' = [tasks EXCEPT ![t] = [pc |-> "returned", ret |-> get_status_code]]
    /\ UNCHANGED <<store, now, writes, granted, remote, cfg>>

\* The response is sent and the worker takes no further part.
task_respond(t) ==
    /\ tasks[t].pc = "returned"
    /\ tasks' = [tasks EXCEPT ![t] = Free]
    /\ UNCHANGED <<devices, store, now, writes, granted, remote, cfg, hb>>

\* The clock read by Utc::now() advances between any two steps.
utc_advance ==
    /\ now < MaxTime
    /\ now' = now + 1
    /\ UNCHANGED <<devices, store, writes, granted, remote, cfg, tasks, hb>>

InitConc ==
    /\ devices = [m \in ConcMACs |-> None]
    /\ store \in [ConcMACs -> {NoRow, Row(0)}]
    /\ now = 0
    /\ writes = <<>>
    /\ granted = {}
    /\ remote = "203.0.113.9"
    /\ cfg = NoCall
    /\ tasks = [t \in Tasks |-> Free]
    /\ hb = Idle

NextConc ==
    \/ \E t \in Tasks : task_receive(t)
    \/ \E t \in Tasks : task_get_authorized(t)
    \/ \E t \in Tasks : task_get_last_heartbeat_write(t)
    \/ \E t \in Tasks : task_now(t)
    \/ \E t \in Tasks : task_update_device(t)
    \/ \E t \in Tasks : task_respond(t)
    \/ utc_advance

SpecConc == InitConc /\ [][NextConc]_vars

\* ------------------------------------------------------------- properties
\* What the heartbeat handled last resolved to.
Resolved == hb.done /\ hb.authorized.ok
Denied == Resolved /\ ~hb.authorized.val.authorized
Squelched == Resolved /\ hb.authorized.val.authorized /\ hb.authorized.val.squelched
Accepted == Resolved /\ hb.authorized.val.authorized /\ ~hb.authorized.val.squelched
\* The store once answered the resolver a row for the MAC and has none now.
Revoked(mac) == mac \in granted /\ ~HasRow(store[mac])

\* C1: once a heartbeat whose authorization check resolved to authorized=false
\* has completed, the cache holds no entry for its MAC.
C1_NoEntryAfterDenial ==
    Denied => ~devices[hb.mac].some

\* C2: a heartbeat for a MAC whose authorization has been revoked queries the
\* store's authorization check and is not resolved as authorized.
C2_RevokedNotServedFromCache ==
    (hb.done /\ Revoked(hb.mac))
        => /\ hb.store_calls = 1
           /\ ~(hb.authorized.ok /\ hb.authorized.val.authorized)

\* C3: a heartbeat whose resolver cannot obtain a store connection ends with
\* service-unavailable and leaves every cache entry as it was.
C3_ConnFailureLeavesCache ==
    [][(hb'.done /\ hb'.conn = "Err")
          => /\ hb'.outcome = Err(SERVICE_UNAVAILABLE)
             /\ devices' = devices]_vars

C3_Witness ==
    /\ hb.done
    /\ hb.conn = "Err"
    /\ hb.outcome = Err(SERVICE_UNAVAILABLE)
    /\ \E m \in MACs : devices[m].some

\* C4: when the store is asked, a query error or an empty result resolves to
\* the verdict {authorized: false, squelched: true}; the resolver errs exactly
\* when no connection is obtained; authorized=true needs a device row.
C4_FailClosed ==
    (hb.done /\ hb.store_calls = 1)
        => /\ (hb.conn = "Ok" /\ (hb.fault \/ ~HasRow(store[hb.mac])))
                => hb.authorized = Ok(AuthorizedResult(FALSE, TRUE))
           /\ ~hb.authorized.ok <=> hb.conn = "Err"
           /\ (hb.authorized.ok /\ hb.authorized.val.authorized)
                => (hb.conn = "Ok" /\ ~hb.fault /\ HasRow(store[hb.mac]))

C4_Witness ==
    /\ hb.done
    /\ hb.store_calls = 1
    /\ hb.fault
    /\ HasRow(store[hb.mac])
    /\ hb.authorized = Ok(AuthorizedResult(FALSE, TRUE))

\* C5: a cached MAC is resolved as authorized without a store call; the store
\* is called only on a miss and at most once per heartbeat.
C5_StoreOnlyOnMiss ==
    hb.done
        => /\ hb.hit => /\ hb.authorized.ok
                        /\ hb.authorized.val.authorized
                        /\ hb.store_calls = 0
           /\ hb.store_calls <= 1
           /\ hb.store_calls = 1 => ~hb.hit

C5_Witness ==
    /\ hb.done
    /\ hb.hit
    /\ ~HasRow(store[hb.mac])
    /\ hb.store_calls = 0
    /\ hb.authorized.val.authorized

\* C6: a heartbeat resolved as authorized and squelched issues no durable
\* write, and leaves a cached record whose last_heartbeat is its own time.
C6_SquelchedNoWriteButCached ==
    Squelched
        => /\ hb.issued = <<>>
           /\ devices[hb.mac].some
           /\ devices[hb.mac].val.last_heartbeat = hb.at

C6_Witness ==
    /\ Squelched
    /\ hb.at > 0
    /\ devices[hb.mac].val.last_heartbeat = hb.at

\* C7: an accepted heartbeat whose local or global address differs from the
\* cached one issues, in that heartbeat, a durable write with the new address.
C7_IpChangeWritten ==
    (Accepted /\ hb.mac \in granted /\ HasRow(store[hb.mac]) /\ hb.ip_changed)
        => \E i \in DOMAIN hb.issued :
               /\ hb.issued[i].mac = hb.mac
               /\ hb.issued[i].local_ip = hb.ip
               /\ hb.issued[i].global_ip = get_pip
               /\ hb.issued[i].at = hb.at

\* C8: two record_heartbeat writes for the same MAC with the same addresses
\* are more than max_staleness - hb_staleness_period apart.
C8_AtMostOneWritePerWindow ==
    \A i, j \in DOMAIN writes :
        (/\ i < j
         /\ writes[i].mac = writes[j].mac
         /\ writes[i].op = "record_heartbeat"
         /\ writes[j].op = "record_heartbeat"
         /\ writes[i].local_ip = writes[j].local_ip
         /\ writes[i].global_ip = writes[j].global_ip)
            => writes[j].at - writes[i].at > max_staleness - hb_staleness_period

\* An authorized device, not uninitialized, heartbeats again with the same
\* addresses less than hb_staleness_period after its previous heartbeat.
C8_Witness ==
    /\ Accepted
    /\ hb.mac \in granted
    /\ HasRow(store[hb.mac])
    /\ ~hb.uninitialized
    /\ hb.hit
    /\ ~hb.ip_changed
    /\ hb.at > hb.prev.val
    /\ hb.at - hb.prev.val < hb_staleness_period
    /\ devices[hb.mac].val.last_heartbeat = hb.at

\* C9: after an accepted heartbeat of a device the store authorizes that
\* follows the device's previous one by at most hb_staleness_period, the
\* record has a last durable write and its last_heartbeat is at most
\* max_staleness ahead of it.
C9_DurableTrailsByAtMostBudget ==
    (/\ Accepted
     /\ hb.mac \in granted
     /\ HasRow(store[hb.mac])
     /\ hb.outcome.ok
     /\ hb.prev.some
     /\ hb.at - hb.prev.val <= hb_staleness_period)
        => LET r == devices[hb.mac].val
           IN /\ r.last_heartbeat_write.some
              /\ r.last_heartbeat - r.last_heartbeat_write.val <= max_staleness

\* C10: the first uninitialized heartbeat of an unseen authorized device
\* issues exactly one activate_device write and creates a record whose
\* last durable write is the time of that heartbeat; a write issued by an
\* accepted heartbeat is activate_device exactly when uninitialized is set.
C10_ActivationOnFirstUninitialized ==
    Accepted
        => /\ \A i \in DOMAIN hb.issued :
                hb.issued[i].op = IF hb.uninitialized THEN "activate_device"
                                                      ELSE "record_heartbeat"
           /\ (hb.uninitialized /\ ~hb.hit)
                => /\ Len(hb.issued) = 1
                   /\ hb.issued[1].op = "activate_device"
                   /\ devices[hb.mac].val.last_heartbeat_write = Some(hb.at)

\* A heartbeat that requires a durable write under the staleness policy's
\* unconditional triggers: no record before it, a changed local address, or
\* the uninitialized endpoint.
WriteRequired == ~hb.hit \/ hb.ip_changed \/ hb.uninitialized

\* The activate_device writes among a sequence of issued writes.
Activations(issued) == {i \in DOMAIN issued : issued[i].op = "activate_device"}

\* C11: the same uninitialized heartbeat (same id, MAC and address) of a
\* device the store authorizes, accepted twice with no step between, issues
\* exactly one activate_device write over the two.
C11_ReplayActivatesOnce ==
    [][(/\ Accepted
        /\ hb.uninitialized
        /\ ~hb.hit
        /\ hb.mac \in granted
        /\ HasRow(store[hb.mac])
        /\ hb'.done
        /\ hb'.uninitialized
        /\ hb'.mac = hb.mac /\ hb'.id = hb.id /\ hb'.ip = hb.ip
        /\ hb'.authorized.ok
        /\ hb'.authorized.val.authorized
        /\ ~hb'.authorized.val.squelched)
          => Cardinality(Activations(hb.issued))
               + Cardinality(Activations(hb'.issued)) = 1]_vars

C14_OutcomeTellsAuthorization ==
    (Denied \/ Squelched) => hb.outcome # Ok("success")

\* C15: every record with a last durable write has it no later than its
\* last heartbeat.
C15_DurableNeverLeads ==
    \A m \in DOMAIN devices :
        (devices[m].some /\ devices[m].val.last_heartbeat_write.some)
            => devices[m].val.last_heartbeat_write.val <= devices[m].val.last_heartbeat

\* The state C15 is about: some record has a last durable write.
C15_Case ==
    \E m \in DOMAIN devices :
        devices[m].some /\ devices[m].val.last_heartbeat_write.some

\* No record has a last durable write.
C15_NeverSet == ~C15_Case

\* C16: the cache holds at most one record per canonical MAC: two keys with
\* the same canonical form never both have a record (shown on keys the store
\* authorizes).
C16_OneRecordPerCanonicalMac ==
    \A a, b \in DOMAIN devices :
        (/\ a # b
         /\ UPPER(a) = UPPER(b)
         /\ a \in granted /\ HasRow(store[a])
         /\ b \in granted /\ HasRow(store[b]))
            => ~(devices[a].some /\ devices[b].some)

\* C17: while a record exists for a MAC its device id does not change (shown
\* on the records of devices the store authorizes).
C17_DeviceIdImmutable ==
    [][\A m \in DOMAIN devices :
          (/\ m \in granted
           /\ HasRow(store[m])
           /\ devices[m].some
           /\ devices'[m].some)
              => devices'[m].val.id = devices[m].val.id]_vars

\* C18: the global address a heartbeat stores is the address the server saw
\* the request arrive from, and not the pip parameter the client sent.
C18_GlobalIpServerObserved ==
    (hb.done /\ hb.outcome.ok)
        => LET stored == devices[hb.mac].val.global_ip_address
           IN /\ stored = remote
              /\ hb.pip.some => stored # hb.pip.val

\* C19: len is the number of keys that have a record.
C19_LenCountsKeys ==
    len(devices) = Cardinality({m \in DOMAIN devices : devices[m].some})

\* C20: a get, upsert or remove on a key, and a whole heartbeat of a key,
\* leave the record of every other key as it was, present or absent.
C20_DistinctKeysIndependent ==
    [][("mac" \in DOMAIN hb')
          => \A b \in DOMAIN devices :
                b # hb'.mac => devices'[b] = devices[b]]_vars

\* A heartbeat has just upserted one key while another key, of another
\* canonical form, has a record, and a third has none.
C20_Witness ==
    /\ hb.done
    /\ hb.outcome.ok
    /\ \E b, c \in DOMAIN devices :
          /\ UPPER(b) # UPPER(hb.mac)
          /\ devices[b].some
          /\ c # hb.mac
          /\ ~devices[c].some

\* The conditions under which a configuration is invalid.
Invalid(self) ==
    \/ self.database.port = 0
    \/ self.server.port = 0
    \/ self.database.pool.min_connections > self.database.pool.max_connections
    \/ self.logging.level \notin {"trace", "debug", "info", "warn", "error"}
    \/ self.app.environment \notin {"development", "staging", "production"}

\* C21: validate returns an error exactly when a port is 0, the pool's
\* minimum exceeds its maximum, or the log level or the environment is not
\* one of the valid ones; the default configuration validates.
C21_ValidateExactly ==
    /\ validate(default).ok
    /\ cfg.op = "validate" => (~cfg.ret.ok <=> Invalid(cfg.self))

\* validate has rejected a configuration whose only fault is its environment,
\* and at another time accepts one whose pool minimum equals its maximum.
C21_Witness ==
    /\ cfg.op = "validate"
    /\ ~cfg.ret.ok
    /\ cfg.self.database.port # 0
    /\ cfg.self.server.port # 0
    /\ cfg.self.database.pool.min_connections = cfg.self.database.pool.max_connections
    /\ cfg.self.logging.level = "trace"
    /\ cfg.self.app.environment = "test"

\* C22: when MYSQL_HOST is set, the configuration load returns has it as the
\* database host, whatever config.toml and the defaults say.
C22_EnvironmentOverrides ==
    (cfg.op = "load" /\ cfg.ret.ok /\ cfg.environment.MYSQL_HOST.some)
        => cfg.ret.val.database.host = cfg.environment.MYSQL_HOST.val

\* The fourth condition of the staleness policy: unflushed progress and the
\* budget about to be exceeded.
StalenessDue ==
    /\ hb.prev.some
    /\ hb.prev_write.some
    /\ hb.at - hb.prev_write.val > max_staleness - hb_staleness_period
    /\ hb.prev.val > hb.prev_write.val

\* C23: an accepted heartbeat of a device the store authorizes issues a
\* durable write exactly when there was no record, an address changed,
\* uninitialized is set, or the staleness condition holds.
C23_WriteIffPolicy ==
    (Accepted /\ hb.mac \in granted /\ HasRow(store[hb.mac]))
        => (hb.issued # <<>> <=> (WriteRequired \/ StalenessDue))

\* The last durable write of the record of a key, None when it has no record.
LastDurableWrite(cache, m) ==
    IF cache[m].some THEN cache[m].val.last_heartbeat_write ELSE None

\* C24: the last durable write of a record changes only in a heartbeat of
\* its MAC that issued a durable write, and then becomes the time of that
\* heartbeat; any other heartbeat stores the record with the value it had.
C24_DurableWriteOnlyAdvancedByWrite ==
    [][\A m \in DOMAIN devices :
          LastDurableWrite(devices', m) # LastDurableWrite(devices, m)
              => /\ hb'.done
                 /\ hb'.mac = m
                 /\ hb'.issued # <<>>
                 /\ LastDurableWrite(devices', m) = Some(hb'.at)]_vars

\* A heartbeat that issued no durable write has replaced an existing record
\* and stored it with the last durable write it had.
C24_Witness ==
    /\ Accepted
    /\ hb.hit
    /\ hb.ip_changed
    /\ hb.issued = <<>>
    /\ devices[hb.mac].val.last_heartbeat_write = hb.prev_write

\* C25: when an accepted heartbeat is acknowledged the cache holds a record
\* for its MAC with the heartbeat's time as last_heartbeat and the request's
\* device id and local address.
C25_AcceptedAlwaysUpserts ==
    (Accepted /\ hb.outcome.ok)
        => /\ devices[hb.mac].some
           /\ devices[hb.mac].val.last_heartbeat = hb.at
           /\ devices[hb.mac].val.id = hb.id
           /\ devices[hb.mac].val.local_ip_address = hb.ip

\* An accepted heartbeat has replaced an older record of its MAC that had
\* another address.
C25_Witness ==
    /\ Accepted
    /\ hb.outcome.ok
    /\ hb.hit
    /\ hb.prev.val < hb.at
    /\ hb.ip_changed
    /\ hb.mac \in granted

\* C26: a device the store has just reported as squelched is resolved as
\* squelched by the heartbeat that follows and is served from the cache.
C26_SquelchServedFromCache ==
    [][(/\ Squelched
        /\ hb.mac \in granted
        /\ hb'.done
        /\ hb'.mac = hb.mac
        /\ hb'.hit
        /\ hb'.authorized.ok)
          => /\ hb'.authorized.val.authorized
             /\ hb'.authorized.val.squelched]_vars

\* C28: the heartbeat of a squelched device that has a record changes
\* nothing of the record but last_heartbeat (shown on the heartbeat that
\* follows the one the store reported the squelch to).
C28_SquelchedPropagatesNothing ==
    [][(/\ Squelched
        /\ hb.mac \in granted
        /\ devices[hb.mac].some
        /\ hb'.done
        /\ hb'.mac = hb.mac
        /\ hb'.outcome.ok)
          => LET old == devices[hb.mac].val
                 stored == devices'[hb.mac].val
             IN /\ stored.local_ip_address = old.local_ip_address
                /\ stored.global_ip_address = old.global_ip_address
                /\ stored.last_heartbeat_write = old.last_heartbeat_write]_vars

\* Task t takes the step that leaves program point pc.
Steps(t, pc) == tasks[t].pc = pc /\ tasks'[t] # tasks[t]

\* C27: the step that resolves the authorization leaves the cache as it was,
\* on every path of the resolver, and a key gets a record only in a
\* handler's update_device step.
C27_ResolverLeavesCache ==
    [][/\ \A t \in Tasks : Steps(t, "get_authorized") => devices' = devices
       /\ \A m \in DOMAIN devices :
             (~devices[m].some /\ devices'[m].some)
                 => \E t \in Tasks : Steps(t, "update_device")]_vars

\* The store has allowed a device on a cache miss, the resolver has returned
\* the verdict, and the cache still has no record of the device.
C27_Witness ==
    \E t \in Tasks :
        /\ tasks[t].pc = "get_last_heartbeat_write"
        /\ tasks[t].authorized = AuthorizedResult(TRUE, FALSE)
        /\ HasRow(store[tasks[t].params.mac])
        /\ ~devices[tasks[t].params.mac].some

\* C29: the cached record of a MAC is, whole, the record passed to the
\* upsert of that MAC that completed last, and absent before any upsert: so
\* a get_device returns nothing or one complete record an upsert supplied.
C29_LastWriteWins ==
    \A m \in DOMAIN devices :
        IF hb = Idle
        THEN devices[m] = None
        ELSE devices[hb.device.mac_address] = Some(hb.device)

\* Two handlers of the same MAC with different requests are both about to
\* upsert while the record of an earlier upsert is cached.
C29_Witness ==
    /\ hb # Idle
    /\ tasks[1].pc = "update_device"
    /\ tasks[2].pc = "update_device"
    /\ tasks[1].device_update.mac_address = tasks[2].device_update.mac_address
    /\ tasks[1].device_update # tasks[2].device_update
    /\ devices[tasks[1].device_update.mac_address].some

\* C30: no step moves the cached last_heartbeat of a MAC backwards (shown on
\* a device the store authorizes).
C30_LastHeartbeatMonotonic ==
    [][\A m \in DOMAIN devices :
          (HasRow(store[m]) /\ devices[m].some /\ devices'[m].some)
              => devices'[m].val.last_heartbeat >= devices[m].val.last_heartbeat]_vars

\* C31: no step replaces the cached last durable write of a MAC by an older
\* value or by none: a handler writing back the value it read at its start
\* does not undo a newer one stored in between.
C31_DurableWriteNotLost ==
    [][\A m \in DOMAIN devices :
          LastDurableWrite(devices, m).some
              => /\ LastDurableWrite(devices', m).some
                 /\ LastDurableWrite(devices', m).val >= LastDurableWrite(devices, m).val]_vars

\* The state C31 is about: a handler is between its read of the last durable
\* write and its upsert while the cache holds a newer one than it read.
C31_Case ==
    \E t \in Tasks :
        /\ tasks[t].pc \in {"now", "update_device"}
        /\ LET held == IF tasks[t].pc = "now"
                        THEN [mac |-> tasks[t].params.mac,
                              read |-> tasks[t].last_heartbeat_write]
                        ELSE [mac |-> tasks[t].device_update.mac_address,
                              read |-> tasks[t].device_update.last_heartbeat_write]
               cached == LastDurableWrite(devices, held.mac)
           IN /\ cached.some
              /\ held.read.some => cached.val > held.read.val

\* No handler ever holds an older last durable write than the cache.
C31_NoNewerWrite == ~C31_Case

====
